---- MODULE Spec2Model ----
(***************************************************************************)
(* Model of nltk/align/ibm_model.py: the probability tables of IBMModel,   *)
(* AlignmentInfo, and the methods sample, hillclimb and neighboring.       *)
(*                                                                         *)
(* Probabilities stored in the tables are represented by their base-10     *)
(* logarithm (1.0 is 0, 1.0e-6 is -6, MIN_PROB = 1.0e-12 is -12), so the   *)
(* product of two probabilities is the sum of the representations and the  *)
(* order of two probabilities is the order of the representations.         *)
(* Python's None (the NULL token) is the string "NULL".  A Python tuple    *)
(* indexed from 0 is a function on 0..n; the two sentences are sequences,  *)
(* so src_sentence[ii] of the code is src_sentence[ii + 1] here and        *)
(* trg_sentence[jj - 1] of the code is trg_sentence[jj] here.              *)
(***************************************************************************)
EXTENDS Integers, Sequences, FiniteSets, TLC

VARIABLES entry, src_sentence, trg_sentence, translation_table,
          alignment_table, fertility_table, p1, hasProbability, scored,
          pc, i, j, sampled_alignments, alignment_info, j_pegged,
          alignment, old_alignment, neighbors, neighboring_of, todo,
          best_alignment, err, initial

vars == <<entry, src_sentence, trg_sentence, translation_table,
          alignment_table, fertility_table, p1, hasProbability, scored,
          pc, i, j, sampled_alignments, alignment_info, j_pegged,
          alignment, old_alignment, neighbors, neighboring_of, todo,
          best_alignment, err, initial>>

(* Bounds of the model: the words of a sentence pair, l + m, in a call of
   sample, of hillclimb and of neighboring; the highest score; the stored
   positions of a table *)
MaxSampleSize == 3
MaxClimbSize == 3
MaxNeighborSize == 4
MaxScore == 1
MaxStored == 1

(* IBMModel.MIN_PROB = 1.0e-12, as a base-10 logarithm *)
MIN_PROB == -12

(* Values the external scoring function may return *)
Scores == 0..MaxScore

SrcVocab == <<"NULL", "a", "b", "c", "d">>
TrgVocab == <<"x", "y", "z", "w", "v", "u">>

(* ------------------------------------------------------------------ *)
(* defaultdict                                                         *)
(* ------------------------------------------------------------------ *)
EmptyDict == [k \in {} |-> 0]

Range(seq) == {seq[k] : k \in DOMAIN seq}

Put(d, k, v) == [x \in (DOMAIN d) \cup {k} |-> IF x = k THEN v ELSE d[x]]

(* defaultdict.__getitem__ on a missing key stores the default *)
Missing(d, k, dflt) == IF k \in DOMAIN d THEN d ELSE Put(d, k, dflt)

(* translation_table[t][s]: the table after the lookup, and the value *)
TranslationAfterM(tt, t, s) ==
    LET tt1 == Missing(tt, t, EmptyDict)
    IN  Put(tt1, t, Missing(tt1[t], s, 0))
TranslationAfter(tt, t, s) ==
    LET tt1 == Missing(tt, t, EmptyDict)
    IN  Put(tt1, t, Missing(tt1[t], s, MIN_PROB))

TranslationProb(tt, t, s) ==
    IF t \in DOMAIN tt /\ s \in DOMAIN tt[t] THEN tt[t][s] ELSE MIN_PROB

(* alignment_table[ii][jj][l][m] *)
AlignmentAfter(at, ii, jj, l, m) ==
    LET d1 == Missing(at, ii, EmptyDict)
        d2 == Missing(d1[ii], jj, EmptyDict)
        d3 == Missing(d2[jj], l, EmptyDict)
        d4 == Missing(d3[l], m, MIN_PROB)
    IN  Put(d1, ii, Put(d2, jj, Put(d3, l, d4)))

AlignmentProb(at, ii, jj, l, m) ==
    IF /\ ii \in DOMAIN at
       /\ jj \in DOMAIN at[ii]
       /\ l \in DOMAIN at[ii][jj]
       /\ m \in DOMAIN at[ii][jj][l]
    THEN at[ii][jj][l][m] ELSE MIN_PROB

(* ------------------------------------------------------------------ *)
(* AlignmentInfo                                                       *)
(* ------------------------------------------------------------------ *)
AlignmentInfo(a, src, trg, fert) ==
    [alignment |-> a, src_sentence |-> src, trg_sentence |-> trg,
     fertility_of_i |-> fert]

(* AlignmentInfo.__eq__ / __hash__: the alignment tuple only *)
Eq(x, y) == x.alignment = y.alignment

(* The absent value of a variable that holds no AlignmentInfo yet *)
None == AlignmentInfo(EmptyDict, <<>>, <<>>, EmptyDict)

(* The arguments of the last call of neighboring; none before the first *)
Call(ai, peg) == [alignment_info |-> ai, j_pegged |-> peg]
NoCall == Call(None, 0)

(* set.add and set.update of sets of AlignmentInfo *)
SetAdd(S, x) == IF \E y \in S : Eq(y, x) THEN S ELSE S \cup {x}

SetUpdate(S, T) == S \cup {x \in T : ~ \E y \in S : Eq(y, x)}

(* ------------------------------------------------------------------ *)
(* neighboring                                                         *)
(* ------------------------------------------------------------------ *)
LenL(ai) == Len(ai.src_sentence) - 1
LenM(ai) == Len(ai.trg_sentence)

MoveNeighborM(ai, jj, ii) ==
    AlignmentInfo([ai.alignment EXCEPT ![jj] = ii], ai.src_sentence,
                  ai.trg_sentence,
                  [ai.fertility_of_i EXCEPT ![ii] = @ + 1])
MoveNeighbor(ai, jj, ii) ==
    LET new_fertility == [ai.fertility_of_i EXCEPT ![ii] = @ + 1]
    IN  AlignmentInfo([ai.alignment EXCEPT ![jj] = ii], ai.src_sentence,
                      ai.trg_sentence,
                      [new_fertility EXCEPT ![ai.alignment[jj]] = @ - 1])

SwapNeighborM(ai, jj, other_j) ==
    AlignmentInfo([ai.alignment EXCEPT ![jj] = ai.alignment[other_j]],
                  ai.src_sentence, ai.trg_sentence, ai.fertility_of_i)
SwapNeighbor(ai, jj, other_j) ==
    AlignmentInfo([ai.alignment EXCEPT ![jj] = ai.alignment[other_j],
                                       ![other_j] = ai.alignment[jj]],
                  ai.src_sentence, ai.trg_sentence, ai.fertility_of_i)

RECURSIVE MoveLoop(_, _, _, _, _)
MoveLoop(ai, peg, jj, ii, acc) ==
    IF jj > LenM(ai) THEN acc
    ELSE IF jj = peg \/ ii > LenL(ai) THEN MoveLoop(ai, peg, jj + 1, 0, acc)
    ELSE MoveLoop(ai, peg, jj, ii + 1, SetAdd(acc, MoveNeighbor(ai, jj, ii)))

SwapGuardM(peg, jj, other_j) == other_j # jj
SwapGuard(peg, jj, other_j) == other_j # peg /\ other_j # jj

RECURSIVE SwapLoop(_, _, _, _, _)
SwapLoop(ai, peg, jj, other_j, acc) ==
    IF jj > LenM(ai) THEN acc
    ELSE IF jj = peg \/ other_j > LenM(ai)
         THEN SwapLoop(ai, peg, jj + 1, 1, acc)
    ELSE IF SwapGuard(peg, jj, other_j)
         THEN SwapLoop(ai, peg, jj, other_j + 1,
                       SetAdd(acc, SwapNeighbor(ai, jj, other_j)))
    ELSE SwapLoop(ai, peg, jj, other_j + 1, acc)

neighboring(ai, peg) == SwapLoop(ai, peg, 1, 1, MoveLoop(ai, peg, 1, 0, {}))

(* ------------------------------------------------------------------ *)
(* sample: the seed of one peg (lines 134-161)                         *)
(* ------------------------------------------------------------------ *)
(* the loop over ii, lines 147-154 *)
RECURSIVE BestLoop(_, _, _)
BestLoop(jj, ii, st) ==
    LET l == Len(src_sentence) - 1
        m == Len(trg_sentence)
    IN  IF ii > l THEN st
        ELSE LET s == src_sentence[ii + 1]
                 t == trg_sentence[jj]
                 tt == TranslationAfter(st.tt, t, s)
                 at == AlignmentAfter(st.at, ii, jj, l, m)
                 alignment_prob == TranslationProb(tt, t, s)
                                   + AlignmentProb(at, ii, jj, l, m)
             IN  IF alignment_prob > st.max_alignment_prob
                 THEN BestLoop(jj, ii + 1,
                               [max_alignment_prob |-> alignment_prob,
                                best_i |-> ii, tt |-> tt, at |-> at])
                 ELSE BestLoop(jj, ii + 1, [st EXCEPT !.tt = tt, !.at = at])

(* the loop over jj, lines 141-157; fertility_of_i[best_i] raises
   IndexError when best_i is not an index of the list *)
RECURSIVE SeedLoop(_, _, _)
SeedLoop(peg_j, jj, st) ==
    IF jj > Len(trg_sentence) \/ st.err # "none" THEN st
    ELSE IF jj = peg_j THEN SeedLoop(peg_j, jj + 1, st)
    ELSE LET b == BestLoop(jj, 0, [max_alignment_prob |-> MIN_PROB,
                                   best_i |-> 1, tt |-> st.tt, at |-> st.at])
         IN  IF b.best_i \notin DOMAIN st.fertility_of_i
             THEN [st EXCEPT !.tt = b.tt, !.at = b.at, !.err = "IndexError"]
             ELSE SeedLoop(peg_j, jj + 1,
                    [alignment |-> [st.alignment EXCEPT ![jj] = b.best_i],
                     fertility_of_i |->
                         [st.fertility_of_i EXCEPT ![b.best_i] = @ + 1],
                     tt |-> b.tt, at |-> b.at, err |-> "none"])

Seed(peg_i, peg_j) ==
    LET l == Len(src_sentence) - 1
        m == Len(trg_sentence)
    IN  SeedLoop(peg_j, 1,
          [alignment |-> [k \in 0..m |-> IF k = peg_j THEN peg_i ELSE 0],
           fertility_of_i |-> [k \in 0..l |-> IF k = peg_i THEN 1 ELSE 0],
           tt |-> translation_table, at |-> alignment_table, err |-> "none"])

(* ------------------------------------------------------------------ *)
(* hillclimb                                                           *)
(* ------------------------------------------------------------------ *)
(* IBMModel defines no probability method: self.probability raises
   AttributeError unless a subclass provides one *)
ProbabilityMissingM == FALSE
ProbabilityMissing == ~ hasProbability

(* line 189 *)
BetterM(neighbor_probability, current_probability) ==
    neighbor_probability >= current_probability
Better(neighbor_probability, current_probability) ==
    neighbor_probability > current_probability

(* the external scoring function is a fixed function of the AlignmentInfo;
   its values are fixed the first time an AlignmentInfo is scored *)
ScoreChoices(memo, ai) == IF ai \in DOMAIN memo THEN {memo[ai]} ELSE Scores

(* line 196 *)
HillclimbResult(seed, current) == seed

(* ------------------------------------------------------------------ *)
(* Initial states: one call of sample, hillclimb or neighboring        *)
(* ------------------------------------------------------------------ *)
(* fertility_of_i as the counts of the alignment *)
Fertility(a, l, m) ==
    [k \in 0..l |-> Cardinality({jj \in 1..m : a[jj] = k})]

(* the lengths (l, m) of the sentence pairs of at most n words *)
Sizes(n) == {lm \in (0..n) \X (1..n) : lm[1] + lm[2] <= n}

Alignments(l, m) == {a \in [0..m -> 0..l] : a[0] = 0}

Infos(l, m) ==
    {AlignmentInfo(a, SubSeq(SrcVocab, 1, l + 1), SubSeq(TrgVocab, 1, m),
                   Fertility(a, l, m)) : a \in Alignments(l, m)}

(* Tables as the EM step leaves them: the entries of the positions in K
   hold the probabilities of one profile, a pair of sets holding the
   translation and the alignment probability, each stored or absent *)
Profiles == {<<{0}, {0}>>, <<{0}, {-6}>>, <<{-6}, {-6}>>,
             <<{0}, {}>>, <<{}, {0}>>}

BuildTranslation(K, V, src, trg) ==
    IF V = {} THEN EmptyDict
    ELSE [t \in {trg[k[2]] : k \in K} |->
            [s \in {src[k[1] + 1] : k \in {kk \in K : trg[kk[2]] = t}} |->
                CHOOSE v \in V : TRUE]]

BuildAlignment(K, V, l, m) ==
    IF V = {} THEN EmptyDict
    ELSE [ii \in {k[1] : k \in K} |->
            [jj \in {k[2] : k \in {kk \in K : kk[1] = ii}} |->
                [ll \in {l} |-> [mm \in {m} |-> CHOOSE v \in V : TRUE]]]]

Small(S) == {K \in SUBSET S : Cardinality(K) <= MaxStored}

(* Scoring functions of model variants: constant, the number of target
   words aligned to NULL, the number aligned to a real source word *)
ScoreKinds == {"flat", "null", "real"}

Min(x, y) == IF x < y THEN x ELSE y

ModelScore(kind, ai) ==
    CASE kind = "flat" -> 0
      [] kind = "null" -> Min(MaxScore, ai.fertility_of_i[0])
      [] kind = "real" ->
            Min(MaxScore, Len(ai.trg_sentence) - ai.fertility_of_i[0])

InitCommon(l, m) ==
    /\ src_sentence = SubSeq(SrcVocab, 1, l + 1)
    /\ trg_sentence = SubSeq(TrgVocab, 1, m)
    /\ fertility_table = EmptyDict
    /\ p1 = <<5, -1>>
    /\ sampled_alignments = {}
    /\ alignment = None
    /\ old_alignment = None
    /\ neighbors = {}
    /\ neighboring_of = NoCall
    /\ todo = {}
    /\ best_alignment = None
    /\ err = "none"
    /\ initial = [translation_table |-> translation_table,
                  alignment_table |-> alignment_table,
                  fertility_table |-> fertility_table, p1 |-> p1]

InitSample ==
    \E lm \in Sizes(MaxSampleSize) :
      LET l == lm[1]
          m == lm[2]
      IN
        /\ entry = "sample"
        /\ \E K \in Small((0..l) \X (1..m)), V \in Profiles :
              /\ translation_table =
                     BuildTranslation(K, V[1], SubSeq(SrcVocab, 1, l + 1),
                                      SubSeq(TrgVocab, 1, m))
              /\ alignment_table = BuildAlignment(K, V[2], l, m)
        /\ \/ hasProbability = FALSE /\ scored = EmptyDict
           \/ /\ hasProbability = TRUE
              /\ \E kind \in ScoreKinds :
                    scored = [ai \in Infos(l, m) |-> ModelScore(kind, ai)]
        /\ pc = "peg"
        /\ i = 0
        /\ j = 1
        /\ alignment_info = None
        /\ j_pegged = 0
        /\ InitCommon(l, m)

InitDirect(l, m) ==
    /\ translation_table = EmptyDict
    /\ alignment_table = EmptyDict
    /\ i = 0
    /\ j = 0
    /\ j_pegged \in 1..m
    /\ hasProbability \in BOOLEAN
    /\ scored = EmptyDict
    /\ InitCommon(l, m)

(* hillclimb called on any seed, with a scoring function of which nothing
   is fixed beforehand *)
InitHillclimb ==
    \E lm \in Sizes(MaxClimbSize) :
      LET l == lm[1]
          m == lm[2]
      IN
        /\ entry = "hillclimb"
        /\ pc = "hc_enter"
        /\ \E a \in Alignments(l, m) :
              alignment_info = AlignmentInfo(a, SubSeq(SrcVocab, 1, l + 1),
                                  SubSeq(TrgVocab, 1, m), Fertility(a, l, m))
        /\ InitDirect(l, m)

(* neighboring accepts any fertility vector; a stale one is all zero *)
InitNeighboring ==
    \E lm \in Sizes(MaxNeighborSize) :
      LET l == lm[1]
          m == lm[2]
      IN
        /\ entry = "neighboring"
        /\ pc = "nb_enter"
        /\ \E a \in Alignments(l, m) :
           \E f \in {Fertility(a, l, m), [k \in 0..l |-> 0]} :
              alignment_info = AlignmentInfo(a, SubSeq(SrcVocab, 1, l + 1),
                                  SubSeq(TrgVocab, 1, m), f)
        /\ InitDirect(l, m)

Init == InitSample \/ InitHillclimb \/ InitNeighboring

(* ------------------------------------------------------------------ *)
(* Actions                                                             *)
(* ------------------------------------------------------------------ *)
tables == <<translation_table, alignment_table, fertility_table, p1>>
inputs == <<entry, src_sentence, trg_sentence, hasProbability, initial>>

(* lines 185 and 183: a pass of the while loop starts *)
StartPass(current) ==
    /\ old_alignment' = current
    /\ neighbors' = neighboring(current, j_pegged)
    /\ neighboring_of' = Call(current, j_pegged)
    /\ todo' = neighbors'

(* sample, lines 132-162: the seed of peg (i, j) and the call of hillclimb *)
SampleSeed ==
    /\ entry = "sample"
    /\ pc = "peg"
    /\ i <= Len(src_sentence) - 1
    /\ LET st == Seed(i, j)
       IN  /\ translation_table' = st.tt
           /\ alignment_table' = st.at
           /\ IF st.err # "none"
              THEN /\ err' = st.err
                   /\ pc' = "raised"
                   /\ UNCHANGED <<alignment_info, j_pegged>>
              ELSE /\ alignment_info' =
                          AlignmentInfo(st.alignment, src_sentence,
                                        trg_sentence, st.fertility_of_i)
                   /\ j_pegged' = j
                   /\ pc' = "hc_enter"
                   /\ err' = err
    /\ UNCHANGED <<inputs, fertility_table, p1, scored, i, j,
                   sampled_alignments, alignment, old_alignment, neighbors,
                   neighboring_of, todo, best_alignment>>

(* hillclimb, lines 181-185 *)
HillclimbEnter ==
    /\ pc = "hc_enter"
    /\ alignment' = alignment_info
    /\ StartPass(alignment_info)
    /\ pc' = "hc_for"
    /\ UNCHANGED <<inputs, tables, scored, i, j, sampled_alignments,
                   alignment_info, j_pegged, best_alignment, err>>

(* hillclimb, lines 185-190: one neighbor of the pass, in the order the
   set yields them *)
HillclimbVisit ==
    /\ pc = "hc_for"
    /\ \E neighbor_alignment \in todo :
        IF ProbabilityMissing
        THEN /\ err' = "AttributeError"
             /\ pc' = "raised"
             /\ UNCHANGED <<scored, alignment, todo>>
        ELSE \E neighbor_probability \in
                    ScoreChoices(scored, neighbor_alignment) :
             LET memo == Put(scored, neighbor_alignment, neighbor_probability)
             IN  \E current_probability \in ScoreChoices(memo, alignment) :
                    /\ scored' = Put(memo, alignment, current_probability)
                    /\ alignment' =
                         IF Better(neighbor_probability, current_probability)
                         THEN neighbor_alignment ELSE alignment
                    /\ todo' = todo \ {neighbor_alignment}
                    /\ UNCHANGED <<pc, err>>
    /\ UNCHANGED <<inputs, tables, i, j, sampled_alignments, alignment_info,
                   j_pegged, old_alignment, neighbors, neighboring_of,
                   best_alignment>>

(* hillclimb, lines 192-196 and 183-185: the pass is over *)
HillclimbPassEnd ==
    /\ pc = "hc_for"
    /\ todo = {}
    /\ IF Eq(alignment, old_alignment)
       THEN /\ best_alignment' = HillclimbResult(alignment_info, alignment)
            /\ pc' = "hc_return"
            /\ UNCHANGED <<old_alignment, neighbors, neighboring_of, todo>>
       ELSE /\ StartPass(alignment)
            /\ UNCHANGED <<pc, best_alignment>>
    /\ UNCHANGED <<inputs, tables, scored, i, j, sampled_alignments,
                   alignment_info, j_pegged, alignment, err>>

(* sample, lines 163-164, and the next peg of the two for loops *)
SampleExpand ==
    /\ entry = "sample"
    /\ pc = "hc_return"
    /\ neighbors' = neighboring(best_alignment, j)
    /\ neighboring_of' = Call(best_alignment, j)
    /\ sampled_alignments' = SetUpdate(sampled_alignments, neighbors')
    /\ IF j < Len(trg_sentence)
       THEN j' = j + 1 /\ i' = i
       ELSE j' = 1 /\ i' = i + 1
    /\ pc' = "peg"
    /\ UNCHANGED <<inputs, tables, scored, alignment_info, j_pegged,
                   alignment, old_alignment, todo, best_alignment, err>>

(* sample, line 166 *)
SampleReturn ==
    /\ entry = "sample"
    /\ pc = "peg"
    /\ i > Len(src_sentence) - 1
    /\ pc' = "returned"
    /\ UNCHANGED <<inputs, tables, scored, i, j, sampled_alignments,
                   alignment_info, j_pegged, alignment, old_alignment,
                   neighbors, neighboring_of, todo, best_alignment, err>>

(* a direct call of neighboring, lines 208-246 *)
Neighboring ==
    /\ entry = "neighboring"
    /\ pc = "nb_enter"
    /\ neighbors' = neighboring(alignment_info, j_pegged)
    /\ neighboring_of' = Call(alignment_info, j_pegged)
    /\ pc' = "nb_return"
    /\ UNCHANGED <<inputs, tables, scored, i, j, sampled_alignments,
                   alignment_info, j_pegged, alignment, old_alignment, todo,
                   best_alignment, err>>

Next ==
    \/ SampleSeed
    \/ HillclimbEnter
    \/ HillclimbVisit
    \/ HillclimbPassEnd
    \/ SampleExpand
    \/ SampleReturn
    \/ Neighboring

Spec == Init /\ [][Next]_vars

(* hillclimb runs on once called: no step of its loop is postponed forever *)
FairSpec ==
    /\ Spec
    /\ WF_vars(HillclimbEnter)
    /\ WF_vars(HillclimbVisit)
    /\ WF_vars(HillclimbPassEnd)

(* ------------------------------------------------------------------ *)
(* Properties                                                          *)
(* ------------------------------------------------------------------ *)
l_ == Len(src_sentence) - 1
m_ == Len(trg_sentence)

(* fertility_of_i[k] is the number of target positions aligned to k, and
   the entries sum to m *)
RECURSIVE SumTo(_, _)
SumTo(f, k) == IF k < 0 THEN 0 ELSE f[k] + SumTo(f, k - 1)

Consistent(ai) ==
    /\ \A k \in 0..LenL(ai) :
          ai.fertility_of_i[k] =
              Cardinality({jj \in 1..LenM(ai) : ai.alignment[jj] = k})
    /\ SumTo(ai.fertility_of_i, LenL(ai)) = LenM(ai)

(* the alignments one move, or one swap, away from a with peg fixed *)
Moves(a, peg) ==
    {[a EXCEPT ![jj] = ii] : jj \in (1..m_) \ {peg}, ii \in 0..l_}

Swaps(a, peg) ==
    {[a EXCEPT ![jj[1]] = a[jj[2]], ![jj[2]] = a[jj[1]]] :
        jj \in {p \in ((1..m_) \ {peg}) \X ((1..m_) \ {peg}) : p[1] # p[2]}}

(* C1: the AlignmentInfo hillclimb returns is a local optimum: no member of
   neighboring(returned, j_pegged) has a strictly higher probability *)
C1_LocalOptimum ==
    (pc = "hc_return" /\ hasProbability) =>
        \A n \in neighboring(best_alignment, j_pegged) :
            (n \in DOMAIN scored /\ best_alignment \in DOMAIN scored) =>
                scored[n] <= scored[best_alignment]

(* C2: every seed sample constructs, every neighbor that neighboring
   produces from an input with a consistent fertility vector, and every
   member of the set sample collects, has a consistent fertility vector *)
C2_FertilityConsistent ==
    /\ (entry = "sample" /\ alignment_info # None) => Consistent(alignment_info)
    /\ (neighboring_of # NoCall /\ Consistent(neighboring_of.alignment_info)) =>
            \A n \in neighbors : Consistent(n)
    /\ \A n \in sampled_alignments : Consistent(n)

(* neighboring, given a consistent fertility vector, has made a neighbor by
   a swap that no move produces and a neighbor by a move that changes the
   fertility vector *)
C2_Witness ==
    /\ neighboring_of # NoCall
    /\ Consistent(neighboring_of.alignment_info)
    /\ \E n \in neighbors :
          n.alignment \notin Moves(neighboring_of.alignment_info.alignment,
                                   neighboring_of.j_pegged)
    /\ \E n \in neighbors :
          /\ n.alignment \in Moves(neighboring_of.alignment_info.alignment,
                                   neighboring_of.j_pegged)
          /\ n.fertility_of_i # neighboring_of.alignment_info.fertility_of_i

(* C3: neighboring(a, peg) returns exactly the alignments one move or one
   swap away from a that leave peg alone, one AlignmentInfo per alignment *)
C3_ExactNeighbors ==
    neighboring_of # NoCall =>
        /\ {n.alignment : n \in neighbors} =
              Moves(neighboring_of.alignment_info.alignment,
                    neighboring_of.j_pegged)
              \cup Swaps(neighboring_of.alignment_info.alignment,
                       neighboring_of.j_pegged)
        /\ \A x, y \in neighbors : Eq(x, y) => x = y

(* neighboring returned a swap neighbor that no move produces *)
C3_Witness ==
    /\ neighboring_of # NoCall
    /\ \E n \in neighbors :
          n.alignment \notin Moves(neighboring_of.alignment_info.alignment,
                    neighboring_of.j_pegged)

(* C4: no neighbor differs from the input at the pegged target position *)
C4_PegKept ==
    neighboring_of # NoCall =>
        \A n \in neighbors :
            n.alignment[neighboring_of.j_pegged] =
                neighboring_of.alignment_info.alignment[neighboring_of.j_pegged]

(* neighboring returned neighbors that differ from an input whose pegged
   position is aligned to another source position than the others *)
C4_Witness ==
    /\ neighboring_of # NoCall
    /\ m_ >= 3
    /\ \A jj \in (1..m_) \ {neighboring_of.j_pegged} :
          neighboring_of.alignment_info.alignment[jj] #
              neighboring_of.alignment_info.alignment[neighboring_of.j_pegged]
    /\ \E n \in neighbors : ~ Eq(n, neighboring_of.alignment_info)

(* C5: with l = 0 sample, on a model with a scoring function, raises no
   error and every alignment it produces has all entries 0 *)
C5_NullOnly ==
    (entry = "sample" /\ hasProbability /\ l_ = 0) =>
        /\ err = "none"
        /\ alignment_info # None =>
              \A jj \in 1..m_ : alignment_info.alignment[jj] = 0
        /\ \A n \in sampled_alignments :
              \A jj \in 1..m_ : n.alignment[jj] = 0

(* C6: in the seed of peg (i, j), alignment[j] = i and every other target
   position is aligned to a source position in 0..l whose product of
   translation and alignment probability is maximal *)
Product(ii, jj) ==
    TranslationProb(translation_table, trg_sentence[jj], src_sentence[ii + 1])
    + AlignmentProb(alignment_table, ii, jj, l_, m_)

C6_SeedMaximal ==
    (entry = "sample" /\ pc = "hc_enter") =>
        /\ alignment_info.alignment[j] = i
        /\ \A jj \in (1..m_) \ {j} :
              /\ alignment_info.alignment[jj] \in 0..l_
              /\ \A ii \in 0..l_ :
                    Product(alignment_info.alignment[jj], jj) >= Product(ii, jj)

(* C7: the alignment hillclimb returned for a peg is a member of the set
   sample collects, so the set sample returns is not empty *)
C7_BestInSample ==
    (entry = "sample" /\ pc \in {"peg", "returned"}
                      /\ best_alignment # None) =>
        \E n \in sampled_alignments : Eq(n, best_alignment)

(* C8: without a scoring function, sample and hillclimb never complete
   normally, for every input with m >= 1 *)
C8_AlwaysError ==
    (entry \in {"sample", "hillclimb"} /\ ~ hasProbability) =>
        pc \notin {"hc_return", "returned"}

(* C8 as amended: without a scoring function, for every input with m >= 2,
   sample and hillclimb never complete normally and score nothing, and
   hillclimb, once called, ends in an error *)
NoScoring == entry \in {"sample", "hillclimb"} /\ ~ hasProbability /\ m_ >= 2

C8_ErrorFromTwoWords ==
    /\ [](NoScoring => /\ pc \notin {"hc_return", "returned"}
                       /\ scored = EmptyDict
                       /\ sampled_alignments = {})
    /\ (NoScoring /\ pc = "hc_enter") ~> (pc = "raised")

(* the first call of the scoring function has raised AttributeError *)
C8_Witness ==
    /\ entry \in {"sample", "hillclimb"}
    /\ ~ hasProbability
    /\ m_ >= 2
    /\ pc = "raised"
    /\ err = "AttributeError"

(* C9: translation_table, alignment_table, fertility_table, with their
   stored keys, and p1 are what they were before the call *)
C9_NoWrite ==
    /\ translation_table = initial.translation_table
    /\ alignment_table = initial.alignment_table
    /\ fertility_table = initial.fertility_table
    /\ p1 = initial.p1

(* C9 as amended: p1, fertility_table and the probability that any lookup
   in translation_table or alignment_table yields are what they were before
   the call, no stored key is removed, and hillclimb and neighboring called
   on their own store nothing *)
C9_LookupsKept ==
    /\ p1 = initial.p1
    /\ fertility_table = initial.fertility_table
    /\ \A t \in Range(TrgVocab), s \in Range(SrcVocab) :
          TranslationProb(translation_table, t, s) =
              TranslationProb(initial.translation_table, t, s)
    /\ \A ii \in 0..MaxSampleSize, jj \in 0..MaxSampleSize,
          ll \in 0..MaxSampleSize, mm \in 0..MaxSampleSize :
          AlignmentProb(alignment_table, ii, jj, ll, mm) =
              AlignmentProb(initial.alignment_table, ii, jj, ll, mm)
    /\ DOMAIN initial.translation_table \subseteq DOMAIN translation_table
    /\ \A t \in DOMAIN initial.translation_table :
          DOMAIN initial.translation_table[t] \subseteq
              DOMAIN translation_table[t]
    /\ DOMAIN initial.alignment_table \subseteq DOMAIN alignment_table
    /\ entry # "sample" =>
          /\ translation_table = initial.translation_table
          /\ alignment_table = initial.alignment_table

(* sample has returned and has stored keys that were absent *)
C9_Witness ==
    /\ entry = "sample"
    /\ pc = "returned"
    /\ translation_table # initial.translation_table
    /\ alignment_table # initial.alignment_table

(* C10: with a fixed scoring function the hillclimb loop terminates: a
   replacement strictly increases the score of the current alignment, and
   the loop exits at the first full pass that makes no replacement *)
C10_Terminates ==
    /\ [][(pc = "hc_for" /\ pc' = "hc_for" /\ todo # {}
           /\ alignment' # alignment) =>
             scored'[alignment'] > scored'[alignment]]_vars
    /\ [][(pc = "hc_for" /\ todo = {}) =>
             (pc' = "hc_return" <=> Eq(alignment, old_alignment))]_vars
    /\ [][(pc = "hc_for" /\ pc' = "hc_return") => todo = {}]_vars
    /\ (pc = "hc_enter" /\ hasProbability) ~> (pc = "hc_return")

(* hillclimb has returned after a pass that replaced the seed *)
C10_Witness ==
    /\ pc = "hc_return"
    /\ hasProbability
    /\ ~ Eq(alignment, alignment_info)

====
